---------------------------- MODULE Spec2Model ----------------------------
(***************************************************************************)
(* The controller service of the EFS CSI driver (pkg/driver/controller.go): *)
(* CreateVolume and DeleteVolume as state machines over the identity        *)
(* allocator, the Cloud collaborator and the Mount collaborator.            *)
(*                                                                          *)
(* Strings are sequences of one-character strings, so that concatenation,   *)
(* trimming, integer parsing and the splitting of a volume identifier are   *)
(* computed and not assumed.                                                *)
(***************************************************************************)
EXTENDS Integers, Sequences, FiniteSets, TLC

(***************************************************************************)
(* Bounds of the model.                                                     *)
(***************************************************************************)
\* Access points the Cloud collaborator creates in one run; past it every
\* CreateAccessPoint fails (the collaborator's own limit per account).
MaxAccessPoints == 2
\* File systems stacked on one ephemeral mount directory; past it Mount fails.
MaxMounts == 2
\* Calls served in one run.
MaxCalls == 3

(***************************************************************************)
(* Constants of controller.go, lines 33-47.                                 *)
(***************************************************************************)
AccessPointMode == <<"e", "f", "s", "-", "a", "p">>
FsId == "fileSystemId"
GidMin == "gidRangeStart"
GidMax == "gidRangeEnd"
ProvisioningMode == "provisioningMode"
DefaultGidMin == 50000
DefaultGidMax == 7000000

(***************************************************************************)
(* Strings.                                                                 *)
(***************************************************************************)
Empty == <<>>

Digits == <<"0", "1", "2", "3", "4", "5", "6", "7", "8", "9">>

IsDigit(c) == \E i \in 1..10 : Digits[i] = c

DigitVal(c) == (CHOOSE i \in 1..10 : Digits[i] = c) - 1

\* strings.TrimSpace: leading and trailing white space removed.
RECURSIVE TrimLeft(_)
TrimLeft(s) == IF s # Empty /\ Head(s) = " " THEN TrimLeft(Tail(s)) ELSE s

RECURSIVE TrimRight(_)
TrimRight(s) ==
    IF s # Empty /\ s[Len(s)] = " " THEN TrimRight(SubSeq(s, 1, Len(s) - 1)) ELSE s

TrimSpace(s) == TrimRight(TrimLeft(s))

\* The value of a string of decimal digits.
RECURSIVE DigitsVal(_, _)
DigitsVal(s, acc) ==
    IF s = Empty THEN acc ELSE DigitsVal(Tail(s), 10 * acc + DigitVal(Head(s)))

\* strconv.Atoi: an optional sign, then one or more decimal digits and nothing
\* else.  (The range error of Atoi needs more digits than the model's strings
\* have.)
Atoi(s) ==
    LET signed == s # Empty /\ Head(s) \in {"+", "-"}
        body   == IF signed THEN Tail(s) ELSE s
    IN  IF body = Empty \/ \E i \in 1..Len(body) : ~IsDigit(body[i])
        THEN [err |-> TRUE, val |-> 0]
        ELSE [err |-> FALSE,
              val |-> IF signed /\ Head(s) = "-"
                      THEN 0 - DigitsVal(body, 0) ELSE DigitsVal(body, 0)]


(***************************************************************************)
(* Requests.  A parameter map holds, for each key, the set of its values:   *)
(* empty when the key is absent, one string when it is present.             *)
(***************************************************************************)
Has(params, key) == params[key] # {}

Value(params, key) == CHOOSE v \in params[key] : TRUE

\* The access modes the driver supports (the capability validator).
volumeCaps == {"SINGLE_NODE_WRITER", "MULTI_NODE_MULTI_WRITER"}

isValidVolumeCapabilities(volCaps) ==
    \A i \in 1..Len(volCaps) : volCaps[i] \in volumeCaps

InvalidArgument(msg) == [code |-> "InvalidArgument", msg |-> msg]

\* CreateVolume, lines 58-157: the checks made before the first collaborator
\* call, in the order of the code.  The result is the error returned, or OK
\* with the file system identifier and the resolved identity range.
Validated(fs, lo, hi) ==
    [code |-> "OK", fs |-> fs,
     gidMin |-> IF lo = 0 /\ hi = 0 THEN DefaultGidMin ELSE lo,
     gidMax |-> IF lo = 0 /\ hi = 0 THEN DefaultGidMax ELSE hi]

\* ParseGidMax with a range that ends where it starts let through.
ParseGidMaxAllowsEqual(params, fs, gidMin) ==
    IF Has(params, GidMax)
    THEN IF gidMin = 0
         THEN InvalidArgument("Missing gidRangeStart")
         ELSE LET r == Atoi(Value(params, GidMax))
              IN  IF r.err THEN InvalidArgument("Failed to parse gidRangeEnd")
                  ELSE IF r.val < gidMin
                       THEN InvalidArgument("gidRangeEnd must be greater")
                       ELSE Validated(fs, gidMin, r.val)
    ELSE IF gidMin # 0
         THEN InvalidArgument("Missing gidRangeEnd")
         ELSE Validated(fs, gidMin, 0)

\* Lines 134-151: gidRangeEnd.
ParseGidMax(params, fs, gidMin) ==
    IF Has(params, GidMax)
    THEN IF gidMin = 0
         THEN InvalidArgument("Missing gidRangeStart")
         ELSE LET r == Atoi(Value(params, GidMax))
              IN  IF r.err THEN InvalidArgument("Failed to parse gidRangeEnd")
                  ELSE IF r.val <= gidMin
                       THEN InvalidArgument("gidRangeEnd must be greater")
                       ELSE Validated(fs, gidMin, r.val)
    ELSE IF gidMin # 0
         THEN InvalidArgument("Missing gidRangeEnd")
         ELSE Validated(fs, gidMin, 0)

\* ParseGidMin with a range that starts at zero let through.
ParseGidMinAllowsZero(params, fs) ==
    IF Has(params, GidMin)
    THEN LET r == Atoi(Value(params, GidMin))
         IN  IF r.err THEN InvalidArgument("Failed to parse gidRangeStart")
             ELSE IF r.val < 0
                  THEN InvalidArgument("gidRangeStart must be greater than 0")
                  ELSE ParseGidMax(params, fs, r.val)
    ELSE ParseGidMax(params, fs, 0)

\* Lines 124-132: gidRangeStart.
ParseGidMin(params, fs) ==
    IF Has(params, GidMin)
    THEN LET r == Atoi(Value(params, GidMin))
         IN  IF r.err THEN InvalidArgument("Failed to parse gidRangeStart")
             ELSE IF r.val <= 0
                  THEN InvalidArgument("gidRangeStart must be greater than 0")
                  ELSE ParseGidMax(params, fs, r.val)
    ELSE ParseGidMax(params, fs, 0)

\* Lines 114-122: fileSystemId.
ParseFsId(params) ==
    IF Has(params, FsId)
    THEN IF TrimSpace(Value(params, FsId)) = Empty
         THEN InvalidArgument("fileSystemId cannot be empty")
         ELSE ParseGidMin(params, Value(params, FsId))
    ELSE InvalidArgument("Missing fileSystemId")

ParseProvisioningMode(params) ==
    IF Has(params, ProvisioningMode)
    THEN IF Value(params, ProvisioningMode) # AccessPointMode
         THEN InvalidArgument("Provisioning mode is not supported")
         ELSE ParseFsId(params)
    ELSE InvalidArgument("Missing provisioningMode")

ValidateCreate(req) ==
    IF req.name = Empty
    THEN InvalidArgument("Volume name not provided")
    ELSE IF Len(req.caps) = 0
         THEN InvalidArgument("Volume capabilities not provided")
         ELSE IF ~isValidVolumeCapabilities(req.caps)
              THEN InvalidArgument("Volume capabilities not supported")
              ELSE ParseProvisioningMode(req.params)

(***************************************************************************)
(* The volume identifier.                                                   *)
(***************************************************************************)
Delimiter == ":"

\* The segments of s between delimiters.
RECURSIVE Split(_)
Split(s) ==
    IF \E i \in 1..Len(s) : s[i] = Delimiter
    THEN LET i == CHOOSE k \in 1..Len(s) :
                      /\ s[k] = Delimiter
                      /\ \A j \in 1..(k - 1) : s[j] # Delimiter
         IN  <<SubSeq(s, 1, i - 1)>> \o Split(SubSeq(s, i + 1, Len(s)))
    ELSE <<s>>

\* EncodeVolumeId with one delimiter, the subpath's segment left out.
EncodeVolumeIdOneDelimiter(fileSystemId, accessPointId) ==
    fileSystemId \o <<Delimiter>> \o accessPointId

\* CreateVolume, line 205: fileSystemId + "::" + accessPointId.
EncodeVolumeId(fileSystemId, accessPointId) ==
    fileSystemId \o <<Delimiter, Delimiter>> \o accessPointId

\* parseVolumeId: three delimited segments, the first and the third not empty.
parseVolumeId(volId) ==
    LET tokens == Split(volId)
    IN  IF Len(tokens) # 3 \/ tokens[1] = Empty \/ tokens[3] = Empty
        THEN [err |-> TRUE, fileSystemId |-> Empty, subpath |-> Empty,
              accessPointId |-> Empty]
        ELSE [err |-> FALSE, fileSystemId |-> tokens[1], subpath |-> tokens[2],
              accessPointId |-> tokens[3]]

\* What the decoder may answer for volId when an identifier without access
\* point is let through, as the step of DeleteVolume for an empty decoded
\* access point identifier has it: the answer of parseVolumeId, or, for at
\* most three segments with the first not empty and the third empty or
\* missing, success with an empty access point identifier.
DecoderAnswers(volId) ==
    LET tokens == Split(volId)
    IN  {parseVolumeId(volId)} \cup
        (IF /\ Len(tokens) <= 3 /\ tokens[1] # Empty
            /\ (Len(tokens) < 3 \/ tokens[3] = Empty)
         THEN {[err |-> FALSE, fileSystemId |-> tokens[1],
                subpath |-> IF Len(tokens) >= 2 THEN tokens[2] ELSE Empty,
                accessPointId |-> Empty]}
         ELSE {})

(***************************************************************************)
(* The identity allocator.  Its table is a set of entries, one per file     *)
(* system identifier seen, each with the range the file system was first    *)
(* allocated from and the identities in use.                                *)
(***************************************************************************)
HasEntry(table, fs) == \E e \in table : e.fs = fs

Entry(table, fs) == CHOOSE e \in table : e.fs = fs

Used(table, fs) == IF HasEntry(table, fs) THEN Entry(table, fs).used ELSE {}

\* The lowest identity of lo..hi that is not in used, 0 when there is none.
RECURSIVE LowestFree(_, _, _)
LowestFree(lo, hi, used) ==
    IF lo > hi THEN 0
    ELSE IF lo \notin used THEN lo
    ELSE LowestFree(lo + 1, hi, used)

\* getNextGid: the lowest free identity of the file system's range; a range
\* that conflicts with the one the file system was first given is rejected.
getNextGid(table, fs, gidMin, gidMax) ==
    LET e    == IF HasEntry(table, fs) THEN Entry(table, fs)
                ELSE [fs |-> fs, lo |-> gidMin, hi |-> gidMax, used |-> {}]
        gid  == LowestFree(e.lo, e.hi, e.used)
    IN  IF e.lo # gidMin \/ e.hi # gidMax
        THEN [err |-> "InvalidArgument", gid |-> 0, table |-> table]
        ELSE IF gid = 0
        THEN [err |-> "ResourceExhausted", gid |-> 0,
              table |-> (table \ {f \in table : f.fs = fs}) \cup {e}]
        ELSE [err |-> "nil", gid |-> gid,
              table |-> (table \ {f \in table : f.fs = fs})
                            \cup {[e EXCEPT !.used = @ \cup {gid}]}]

\* releaseGid: the identity is free again; releasing a free one changes nothing.
releaseGid(table, fs, gid) ==
    {IF e.fs = fs THEN [e EXCEPT !.used = @ \ {gid}] ELSE e : e \in table}

(***************************************************************************)
(* The Cloud collaborator.  Access points are numbered in the order of      *)
(* their creation; an identifier is never given twice.                      *)
(***************************************************************************)
F1 == <<"f", "1">>
F2 == <<"f", "2">>
FColon == <<"f", ":", "1">>

\* The file systems that exist.
FileSystems == {F1, FColon}

\* The identifier of the i-th access point created, i < 10.
AccessPointId(i) == <<"a", Digits[i + 1]>>

\* The number of the access point with this identifier, 0 when none was created.
AccessPointIndex(aps, id) ==
    IF \E i \in 1..Len(aps) : AccessPointId(i) = id
    THEN CHOOSE i \in 1..Len(aps) : AccessPointId(i) = id
    ELSE 0

IsLive(aps, id) ==
    AccessPointIndex(aps, id) # 0 /\ aps[AccessPointIndex(aps, id)].live

\* DescribeFileSystem: what the call may answer.
DescribeFileSystemResults(fs) ==
    (IF fs \in FileSystems THEN {"nil"} ELSE {"NotFound"})
        \cup {"AccessDenied", "Other"}

\* CreateAccessPoint: the answers, each with whether the access point was
\* created: created and reported, refused, or created with the answer lost.
CreateAccessPointResults(aps) ==
    {[err |-> e, created |-> FALSE] : e \in {"AccessDenied", "AlreadyExists", "Other"}}
        \cup (IF Len(aps) < MaxAccessPoints
              THEN {[err |-> "nil", created |-> TRUE],
                    [err |-> "Other", created |-> TRUE]}
              ELSE {})

\* DescribeAccessPoint and DeleteAccessPoint: what the call may answer.
AccessPointResults(aps, id) ==
    (IF IsLive(aps, id) THEN {"nil"} ELSE {"NotFound"})
        \cup {"AccessDenied", "Other"}

(***************************************************************************)
(* State.                                                                   *)
(***************************************************************************)
VARIABLES
    gidTable,                  \* d.gidAllocator: the allocation table
    aps,                       \* Cloud: the access points created, in order
    dirs,                      \* Mount: the access points whose ephemeral directory exists
    mounts,                    \* Mount: file systems mounted at each ephemeral directory
    deleteAccessPointRootDir,  \* d.deleteAccessPointRootDir
    pc,                        \* where each worker's call stands
    call,                      \* the locals of each worker's call
    log,                       \* the collaborator calls each worker's call has made
    done,                      \* the call that returned last, and its response
    held,                      \* history: identities obtained and not released
    reuse,                     \* history: per file system, the last identity obtained
    calls,                     \* history: the number of calls served
    limit,                     \* the number of calls the model serves
    volumes,                   \* history: the access points of the volumes that
                               \* CreateVolume returned
    faults                     \* history: a collaborator or the file system failed
                               \* where it could have succeeded

vars == <<gidTable, aps, dirs, mounts, deleteAccessPointRootDir, pc, call, log,
          done, held, reuse, calls, limit, volumes, faults>>

\* The workers that serve calls concurrently.
Procs == {"w1", "w2"}

Targets == 1..MaxAccessPoints

NoCall ==
    [op |-> "none", req |-> Empty, fs |-> Empty, gidMin |-> 0, gidMax |-> 0,
     gid |-> 0, ap |-> Empty, err |-> "nil", reused |-> FALSE, gone |-> FALSE]

EmptyMap == <<>>

\* A response: the status code and, for CreateVolume, the csi.Volume.
Response(code, volumeId, capacity) ==
    [code |-> code, volumeId |-> volumeId, capacity |-> capacity,
     context |-> EmptyMap]

Failure(code) == Response(code, Empty, 0)

\* The state after construction, with n calls to serve.
Start(n) ==
    /\ gidTable = {}
    /\ aps = <<>>
    /\ dirs = {}
    /\ mounts = [t \in Targets |-> 0]
    /\ deleteAccessPointRootDir \in BOOLEAN
    /\ pc = [p \in Procs |-> "idle"]
    /\ call = [p \in Procs |-> NoCall]
    /\ log = [p \in Procs |-> <<>>]
    /\ done = [call |-> NoCall, log |-> <<>>, ret |-> Failure("none")]
    /\ held = {}
    /\ reuse = {}
    /\ calls = 0
    /\ limit = n
    /\ volumes = {}
    /\ faults = FALSE

Init == Start(MaxCalls)

\* The call of worker p, with locals c and having made the calls l, returns.
Return(p, c, l, response) ==
    /\ pc' = [pc EXCEPT ![p] = "idle"]
    /\ call' = [call EXCEPT ![p] = NoCall]
    /\ log' = [log EXCEPT ![p] = <<>>]
    /\ done' = [call |-> c, log |-> l, ret |-> response]

\* The call of worker p goes on at label.
Goto(p, c, l, label) ==
    /\ pc' = [pc EXCEPT ![p] = label]
    /\ call' = [call EXCEPT ![p] = c]
    /\ log' = [log EXCEPT ![p] = l]
    /\ UNCHANGED done

\* The call x is among the calls l.
Called(l, x) == \E i \in 1..Len(l) : l[i] = x

\* The number of times the call x is among the calls l.
Count(l, x) == Cardinality({i \in 1..Len(l) : l[i] = x})

(***************************************************************************)
(* CreateVolume.                                                            *)
(***************************************************************************)
\* Lines 56-165: the request is read and validated.
CreateVolumeValidate(p, req) ==
    LET v == ValidateCreate(req)
        c == [NoCall EXCEPT !.op = "CreateVolume", !.req = req]
    IN  /\ pc[p] = "idle"
        /\ calls < limit
        /\ calls' = calls + 1
        /\ IF v.code = "OK"
           THEN Goto(p, [c EXCEPT !.fs = v.fs, !.gidMin = v.gidMin,
                                  !.gidMax = v.gidMax],
                     <<>>, "DescribeFileSystem")
           ELSE Return(p, c, <<>>, Failure(v.code))
        /\ UNCHANGED <<gidTable, aps, dirs, mounts, deleteAccessPointRootDir,
                       held, reuse, faults, limit, volumes>>

\* CreateVolumeDescribeFileSystem with a file system that was not found taken
\* for an internal error.
CreateVolumeDescribeFileSystemNotFoundInternal(p) ==
    LET c == call[p]
        l == Append(log[p], "DescribeFileSystem")
    IN  /\ pc[p] = "DescribeFileSystem"
        /\ \E err \in DescribeFileSystemResults(c.fs) :
              /\ faults' = (faults \/ err \notin {"nil", "NotFound"})
              /\ IF err = "nil" THEN Goto(p, c, l, "getNextGid")
                 ELSE IF err = "AccessDenied"
                 THEN Return(p, [c EXCEPT !.err = err], l, Failure("Unauthenticated"))
                 ELSE IF err = "NotFound"
                 THEN Return(p, [c EXCEPT !.err = err], l, Failure("Internal"))
                 ELSE Return(p, [c EXCEPT !.err = err], l, Failure("Internal"))
        /\ UNCHANGED <<gidTable, aps, dirs, mounts, deleteAccessPointRootDir,
                       held, reuse, calls, limit, volumes>>

\* Lines 167-176: the file system is looked up.
CreateVolumeDescribeFileSystem(p) ==
    LET c == call[p]
        l == Append(log[p], "DescribeFileSystem")
    IN  /\ pc[p] = "DescribeFileSystem"
        /\ \E err \in DescribeFileSystemResults(c.fs) :
              /\ faults' = (faults \/ err \notin {"nil", "NotFound"})
              /\ IF err = "nil" THEN Goto(p, c, l, "getNextGid")
                 ELSE IF err = "AccessDenied"
                 THEN Return(p, [c EXCEPT !.err = err], l, Failure("Unauthenticated"))
                 ELSE IF err = "NotFound"
                 THEN Return(p, [c EXCEPT !.err = err], l, Failure("InvalidArgument"))
                 ELSE Return(p, [c EXCEPT !.err = err], l, Failure("Internal"))
        /\ UNCHANGED <<gidTable, aps, dirs, mounts, deleteAccessPointRootDir,
                       held, reuse, calls, limit, volumes>>

\* CreateVolumeGetNextGid with the allocator's error not looked at.
CreateVolumeGetNextGidIgnoresError(p) ==
    LET c == call[p]
        l == Append(log[p], "getNextGid")
        r == getNextGid(gidTable, c.fs, c.gidMin, c.gidMax)
        others == {e \in reuse : e.fs # c.fs}
    IN  /\ pc[p] = "getNextGid"
        /\ gidTable' = r.table
        /\ IF FALSE
           THEN /\ Return(p, [c EXCEPT !.err = r.err], l, Failure(r.err))
                /\ held' = held
                /\ reuse' = others
           ELSE /\ Goto(p, [c EXCEPT !.gid = r.gid,
                                     !.reused = \E e \in reuse :
                                         e.fs = c.fs /\ e.released],
                        l, "CreateAccessPoint")
                /\ held' = held \cup {<<c.fs, r.gid>>}
                /\ reuse' = others \cup
                       {[fs |-> c.fs, gid |-> r.gid, by |-> p, released |-> FALSE]}
        /\ UNCHANGED <<aps, dirs, mounts, deleteAccessPointRootDir, calls,
                       faults, limit, volumes>>

\* CreateVolumeGetNextGid with the start of the range taken for the identity
\* in place of the allocator's answer.
CreateVolumeGetNextGidTakesGidMin(p) ==
    LET c == call[p]
        l == Append(log[p], "getNextGid")
        r == getNextGid(gidTable, c.fs, c.gidMin, c.gidMax)
        others == {e \in reuse : e.fs # c.fs}
    IN  /\ pc[p] = "getNextGid"
        /\ gidTable' = r.table
        /\ IF r.err # "nil"
           THEN /\ Return(p, [c EXCEPT !.err = r.err], l, Failure(r.err))
                /\ held' = held
                /\ reuse' = others
           ELSE /\ Goto(p, [c EXCEPT !.gid = c.gidMin,
                                     !.reused = \E e \in reuse :
                                         e.fs = c.fs /\ e.released],
                        l, "CreateAccessPoint")
                /\ held' = held \cup {<<c.fs, c.gidMin>>}
                /\ reuse' = others \cup
                       {[fs |-> c.fs, gid |-> c.gidMin, by |-> p, released |-> FALSE]}
        /\ UNCHANGED <<aps, dirs, mounts, deleteAccessPointRootDir, calls,
                       faults, limit, volumes>>

\* Lines 177-188: an identity is allocated; the allocator's error is returned
\* as it is.
CreateVolumeGetNextGid(p) ==
    LET c == call[p]
        l == Append(log[p], "getNextGid")
        r == getNextGid(gidTable, c.fs, c.gidMin, c.gidMax)
        others == {e \in reuse : e.fs # c.fs}
    IN  /\ pc[p] = "getNextGid"
        /\ gidTable' = r.table
        /\ IF r.err # "nil"
           THEN /\ Return(p, [c EXCEPT !.err = r.err], l, Failure(r.err))
                /\ held' = held
                /\ reuse' = others
           ELSE /\ Goto(p, [c EXCEPT !.gid = r.gid,
                                     !.reused = \E e \in reuse :
                                         e.fs = c.fs /\ e.released],
                        l, "CreateAccessPoint")
                /\ held' = held \cup {<<c.fs, r.gid>>}
                /\ reuse' = others \cup
                       {[fs |-> c.fs, gid |-> r.gid, by |-> p, released |-> FALSE]}
        /\ UNCHANGED <<aps, dirs, mounts, deleteAccessPointRootDir, calls,
                       faults, limit, volumes>>

\* CreateVolumeCreateAccessPoint with an access point that exists on the file
\* system looked up and taken in place of a new one.
CreateVolumeCreateAccessPointFindsExisting(p) ==
    LET c == call[p]
        l == Append(log[p], "CreateAccessPoint")
        left == {i \in 1..Len(aps) : aps[i].fs = c.fs /\ aps[i].live}
    IN  /\ pc[p] = "CreateAccessPoint"
        /\ IF left # {}
           THEN /\ aps' = aps
                /\ faults' = faults
                /\ Goto(p, [c EXCEPT !.err = "nil",
                                     !.ap = AccessPointId(CHOOSE i \in left : TRUE)],
                        l, "CreateAccessPointDone")
           ELSE \E r \in CreateAccessPointResults(aps) :
                /\ aps' = IF r.created
                          THEN Append(aps, [fs |-> c.fs, gid |-> c.gid, live |-> TRUE])
                          ELSE aps
                /\ faults' = (faults \/ r.err # "nil")
                /\ Goto(p, [c EXCEPT !.err = r.err,
                                     !.ap = IF r.err = "nil"
                                            THEN AccessPointId(Len(aps) + 1)
                                            ELSE Empty],
                        l, "CreateAccessPointDone")
        /\ UNCHANGED <<gidTable, dirs, mounts, deleteAccessPointRootDir, held,
                       reuse, calls, limit, volumes>>

\* Line 190: the Cloud collaborator is asked for an access point owned by gid.
CreateVolumeCreateAccessPoint(p) ==
    LET c == call[p]
        l == Append(log[p], "CreateAccessPoint")
    IN  /\ pc[p] = "CreateAccessPoint"
        /\ \E r \in CreateAccessPointResults(aps) :
              /\ aps' = IF r.created
                        THEN Append(aps, [fs |-> c.fs, gid |-> c.gid, live |-> TRUE])
                        ELSE aps
              /\ faults' = (faults \/ r.err # "nil")
              /\ Goto(p, [c EXCEPT !.err = r.err,
                                   !.ap = IF r.err = "nil"
                                          THEN AccessPointId(Len(aps) + 1)
                                          ELSE Empty],
                      l, "CreateAccessPointDone")
        /\ UNCHANGED <<gidTable, dirs, mounts, deleteAccessPointRootDir, held,
                       reuse, calls, limit, volumes>>

\* CreateVolumeFailed without the release of the identity.
CreateVolumeFailedKeepsGid(p) ==
    LET c == call[p]
        l == log[p]
    IN  /\ pc[p] = "CreateAccessPointDone"
        /\ c.err # "nil"
        /\ IF c.err = "AccessDenied"
           THEN Return(p, c, l, Failure("Unauthenticated"))
           ELSE IF c.err = "AlreadyExists"
           THEN Return(p, c, l, Failure("AlreadyExists"))
           ELSE Return(p, c, l, Failure("Internal"))
        /\ UNCHANGED <<gidTable, held, reuse, aps, dirs, mounts,
                       deleteAccessPointRootDir, calls, faults, limit, volumes>>

\* CreateVolumeFailed with the failed CreateAccessPoint tried once more before
\* the identity is released.
CreateVolumeFailedRetries(p) ==
    LET c == call[p]
        l == Append(log[p], "releaseGid")
        again == Count(log[p], "CreateAccessPoint") < 2
    IN  /\ pc[p] = "CreateAccessPointDone"
        /\ c.err # "nil"
        /\ gidTable' = IF again THEN gidTable ELSE releaseGid(gidTable, c.fs, c.gid)
        /\ held' = IF again THEN held ELSE held \ {<<c.fs, c.gid>>}
        /\ reuse' = IF again THEN reuse
                    ELSE {e \in reuse : e.fs # c.fs} \cup
                         {[e EXCEPT !.released = TRUE] :
                            e \in {x \in reuse : x.fs = c.fs /\ x.by = p /\ x.gid = c.gid}}
        /\ IF again
           THEN Goto(p, c, log[p], "CreateAccessPoint")
           ELSE IF c.err = "AccessDenied"
           THEN Return(p, c, l, Failure("Unauthenticated"))
           ELSE IF c.err = "AlreadyExists"
           THEN Return(p, c, l, Failure("AlreadyExists"))
           ELSE Return(p, c, l, Failure("Internal"))
        /\ UNCHANGED <<aps, dirs, mounts, deleteAccessPointRootDir, calls,
                       faults, limit, volumes>>

\* Lines 191-200: the access point was not created; the identity is released
\* and the error classified.
CreateVolumeFailed(p) ==
    LET c == call[p]
        l == Append(log[p], "releaseGid")
    IN  /\ pc[p] = "CreateAccessPointDone"
        /\ c.err # "nil"
        /\ gidTable' = releaseGid(gidTable, c.fs, c.gid)
        /\ held' = held \ {<<c.fs, c.gid>>}
        /\ reuse' = {e \in reuse : e.fs # c.fs} \cup
               {[e EXCEPT !.released = TRUE] :
                    e \in {x \in reuse : x.fs = c.fs /\ x.by = p /\ x.gid = c.gid}}
        /\ IF c.err = "AccessDenied"
           THEN Return(p, c, l, Failure("Unauthenticated"))
           ELSE IF c.err = "AlreadyExists"
           THEN Return(p, c, l, Failure("AlreadyExists"))
           ELSE Return(p, c, l, Failure("Internal"))
        /\ UNCHANGED <<aps, dirs, mounts, deleteAccessPointRootDir, calls,
                       faults, limit, volumes>>

\* Lines 202-208: the volume is returned.
CreateVolumeSucceeded(p) ==
    LET c == call[p]
    IN  /\ pc[p] = "CreateAccessPointDone"
        /\ c.err = "nil"
        /\ Return(p, c, log[p],
                  Response("OK", EncodeVolumeId(c.fs, c.ap), c.req.capacity))
        /\ volumes' = volumes \cup {c.ap}
        /\ UNCHANGED <<gidTable, aps, dirs, mounts, deleteAccessPointRootDir,
                       held, reuse, calls, faults, limit>>

(***************************************************************************)
(* DeleteVolume.  The ephemeral mount directory of an access point,         *)
(* TempMountPathPrefix/<accessPointId>, is named by the access point's      *)
(* number.  What the file system holds is not part of the state.            *)
(***************************************************************************)
Target(p) == AccessPointIndex(aps, call[p].ap)

\* DeleteVolumeDecode with the decoder's error returned to the caller.
DeleteVolumeDecodeSurfacesError(p, volId) ==
    LET id == parseVolumeId(volId)
        c  == [NoCall EXCEPT !.op = "DeleteVolume", !.req = volId,
                             !.gone = ~IsLive(aps, id.accessPointId)]
        d  == [c EXCEPT !.fs = id.fileSystemId, !.ap = id.accessPointId]
    IN  /\ pc[p] = "idle"
        /\ calls < limit
        /\ calls' = calls + 1
        /\ IF volId = Empty
           THEN Return(p, c, <<>>, Failure("InvalidArgument"))
           ELSE IF id.err
           THEN Return(p, c, <<>>, Failure("InvalidArgument"))
           ELSE IF id.accessPointId # Empty
           THEN Goto(p, d, <<>>, IF deleteAccessPointRootDir
                                 THEN "DescribeAccessPoint"
                                 ELSE "DeleteAccessPoint")
           ELSE Return(p, d, <<>>, Failure("NotFound"))
        /\ UNCHANGED <<gidTable, aps, dirs, mounts, deleteAccessPointRootDir,
                       held, reuse, faults, limit, volumes>>

\* DeleteVolumeDecode with the root directory deleted whatever the flag says.
DeleteVolumeDecodeAlwaysDescribes(p, volId) ==
    LET id == parseVolumeId(volId)
        c  == [NoCall EXCEPT !.op = "DeleteVolume", !.req = volId,
                             !.gone = ~IsLive(aps, id.accessPointId)]
        d  == [c EXCEPT !.fs = id.fileSystemId, !.ap = id.accessPointId]
    IN  /\ pc[p] = "idle"
        /\ calls < limit
        /\ calls' = calls + 1
        /\ IF volId = Empty
           THEN Return(p, c, <<>>, Failure("InvalidArgument"))
           ELSE IF id.err
           THEN Return(p, c, <<>>, Response("OK", Empty, 0))
           ELSE IF id.accessPointId # Empty
           THEN Goto(p, d, <<>>, IF TRUE
                                 THEN "DescribeAccessPoint"
                                 ELSE "DeleteAccessPoint")
           ELSE Return(p, d, <<>>, Failure("NotFound"))
        /\ UNCHANGED <<gidTable, aps, dirs, mounts, deleteAccessPointRootDir,
                       held, reuse, faults, limit, volumes>>

\* DeleteVolumeDecoded with an empty access point identifier taken for a
\* volume that is gone already.
DeleteVolumeDecodedEmptySucceeds(p, volId, id) ==
    LET c  == [NoCall EXCEPT !.op = "DeleteVolume", !.req = volId,
                             !.gone = ~IsLive(aps, id.accessPointId)]
        d  == [c EXCEPT !.fs = id.fileSystemId, !.ap = id.accessPointId]
    IN  /\ pc[p] = "idle"
        /\ calls < limit
        /\ calls' = calls + 1
        /\ IF volId = Empty
           THEN Return(p, c, <<>>, Failure("InvalidArgument"))
           ELSE IF id.err
           THEN Return(p, c, <<>>, Response("OK", Empty, 0))
           ELSE IF id.accessPointId # Empty
           THEN Goto(p, d, <<>>, IF deleteAccessPointRootDir
                                 THEN "DescribeAccessPoint"
                                 ELSE "DeleteAccessPoint")
           ELSE Return(p, d, <<>>, Response("OK", Empty, 0))
        /\ UNCHANGED <<gidTable, aps, dirs, mounts, deleteAccessPointRootDir,
                       held, reuse, faults, limit, volumes>>

\* Lines 211-229 and 279-281: the identifier is read, and the decoder's answer
\* id looked at.
DeleteVolumeDecoded(p, volId, id) ==
    LET c  == [NoCall EXCEPT !.op = "DeleteVolume", !.req = volId,
                             !.gone = ~IsLive(aps, id.accessPointId)]
        d  == [c EXCEPT !.fs = id.fileSystemId, !.ap = id.accessPointId]
    IN  /\ pc[p] = "idle"
        /\ calls < limit
        /\ calls' = calls + 1
        /\ IF volId = Empty
           THEN Return(p, c, <<>>, Failure("InvalidArgument"))
           ELSE IF id.err
           THEN Return(p, c, <<>>, Response("OK", Empty, 0))
           ELSE IF id.accessPointId # Empty
           THEN Goto(p, d, <<>>, IF deleteAccessPointRootDir
                                 THEN "DescribeAccessPoint"
                                 ELSE "DeleteAccessPoint")
           ELSE Return(p, d, <<>>, Failure("NotFound"))
        /\ UNCHANGED <<gidTable, aps, dirs, mounts, deleteAccessPointRootDir,
                       held, reuse, faults, limit, volumes>>

\* Line 218: the identifier is decoded by parseVolumeId.
DeleteVolumeDecode(p, volId) == DeleteVolumeDecoded(p, volId, parseVolumeId(volId))

\* DeleteVolumeDescribeAccessPoint with NotFound taken for a failure.
DeleteVolumeDescribeAccessPointStrict(p) ==
    LET c == call[p]
        l == Append(log[p], "DescribeAccessPoint")
    IN  /\ pc[p] = "DescribeAccessPoint"
        /\ \E err \in AccessPointResults(aps, c.ap) :
              /\ faults' = (faults \/ err \notin {"nil", "NotFound"})
              /\ IF err = "nil" THEN Goto(p, c, l, "MakeDir")
                 ELSE IF err = "AccessDenied"
                 THEN Return(p, [c EXCEPT !.err = err], l, Failure("Unauthenticated"))
                 ELSE IF err = "NotFound"
                 THEN Return(p, [c EXCEPT !.err = err], l, Failure("Internal"))
                 ELSE Return(p, [c EXCEPT !.err = err], l, Failure("Internal"))
        /\ UNCHANGED <<gidTable, aps, dirs, mounts, deleteAccessPointRootDir,
                       held, reuse, calls, limit, volumes>>

\* Lines 232-242: the access point is looked up.
DeleteVolumeDescribeAccessPoint(p) ==
    LET c == call[p]
        l == Append(log[p], "DescribeAccessPoint")
    IN  /\ pc[p] = "DescribeAccessPoint"
        /\ \E err \in AccessPointResults(aps, c.ap) :
              /\ faults' = (faults \/ err \notin {"nil", "NotFound"})
              /\ IF err = "nil" THEN Goto(p, c, l, "MakeDir")
                 ELSE IF err = "AccessDenied"
                 THEN Return(p, [c EXCEPT !.err = err], l, Failure("Unauthenticated"))
                 ELSE IF err = "NotFound"
                 THEN Return(p, [c EXCEPT !.err = err], l, Response("OK", Empty, 0))
                 ELSE Return(p, [c EXCEPT !.err = err], l, Failure("Internal"))
        /\ UNCHANGED <<gidTable, aps, dirs, mounts, deleteAccessPointRootDir,
                       held, reuse, calls, limit, volumes>>

\* Lines 245-249: the ephemeral directory is made.
DeleteVolumeMakeDir(p) ==
    LET c == call[p]
        l == Append(log[p], "MakeDir")
    IN  /\ pc[p] = "MakeDir"
        /\ \/ /\ dirs' = dirs \cup {Target(p)}
              /\ faults' = faults
              /\ Goto(p, c, l, "Mount")
           \/ /\ dirs' = dirs
              /\ faults' = TRUE
              /\ Return(p, [c EXCEPT !.err = "MakeDir"], l, Failure("Internal"))
        /\ UNCHANGED <<gidTable, aps, mounts, deleteAccessPointRootDir, held,
                       reuse, calls, limit, volumes>>

\* Lines 250-253: the file system is mounted there, on what is mounted there
\* already; a file system that does not exist and a directory that does not
\* exist cannot be mounted.  When the mount fails, os.Remove removes the
\* directory unless something is mounted on it.
DeleteVolumeMount(p) ==
    LET c == call[p]
        l == Append(log[p], "Mount")
    IN  /\ pc[p] = "Mount"
        /\ \/ /\ c.fs \in FileSystems
              /\ Target(p) \in dirs
              /\ mounts[Target(p)] < MaxMounts
              /\ mounts' = [mounts EXCEPT ![Target(p)] = @ + 1]
              /\ dirs' = dirs
              /\ faults' = faults
              /\ Goto(p, c, l, "RemoveRootDir")
           \/ /\ mounts' = mounts
              /\ dirs' = IF mounts[Target(p)] = 0 THEN dirs \ {Target(p)} ELSE dirs
              /\ faults' = (faults \/ (c.fs \in FileSystems /\ Target(p) \in dirs))
              /\ Return(p, [c EXCEPT !.err = "Mount"], Append(l, "Remove"),
                        Failure("Internal"))
        /\ UNCHANGED <<gidTable, aps, deleteAccessPointRootDir, held, reuse,
                       calls, limit, volumes>>

\* Lines 254-257: the access point's root directory is removed below the mount.
DeleteVolumeRemoveRootDir(p) ==
    LET c == call[p]
        l == Append(log[p], "RemoveAll(root)")
    IN  /\ pc[p] = "RemoveRootDir"
        /\ \/ /\ faults' = faults
              /\ Goto(p, c, l, "Unmount")
           \/ /\ faults' = TRUE
              /\ Return(p, [c EXCEPT !.err = "RemoveAll"], l, Failure("Internal"))
        /\ UNCHANGED <<gidTable, aps, dirs, mounts, deleteAccessPointRootDir,
                       held, reuse, calls, limit, volumes>>

\* Lines 258-261: the file system is unmounted.
DeleteVolumeUnmount(p) ==
    LET c == call[p]
        l == Append(log[p], "Unmount")
    IN  /\ pc[p] = "Unmount"
        /\ \/ /\ mounts[Target(p)] > 0
              /\ mounts' = [mounts EXCEPT ![Target(p)] = @ - 1]
              /\ faults' = faults
              /\ Goto(p, c, l, "RemoveDir")
           \/ /\ mounts' = mounts
              /\ faults' = (faults \/ mounts[Target(p)] > 0)
              /\ Return(p, [c EXCEPT !.err = "Unmount"], l, Failure("Internal"))
        /\ UNCHANGED <<gidTable, aps, dirs, deleteAccessPointRootDir, held,
                       reuse, calls, limit, volumes>>

\* Lines 262-265: the ephemeral directory is removed; with a file system still
\* mounted on it the removal ends in an error.
DeleteVolumeRemoveDir(p) ==
    LET c == call[p]
        l == Append(log[p], "RemoveAll(target)")
    IN  /\ pc[p] = "RemoveDir"
        /\ \/ /\ mounts[Target(p)] = 0
              /\ dirs' = dirs \ {Target(p)}
              /\ faults' = faults
              /\ Goto(p, c, l, "DeleteAccessPoint")
           \/ /\ dirs' = dirs
              /\ faults' = (faults \/ mounts[Target(p)] = 0)
              /\ Return(p, [c EXCEPT !.err = "RemoveAll"], l, Failure("Internal"))
        /\ UNCHANGED <<gidTable, aps, mounts, deleteAccessPointRootDir, held,
                       reuse, calls, limit, volumes>>

\* DeleteVolumeDeleteAccessPoint with NotFound taken for a failure.
DeleteVolumeDeleteAccessPointStrict(p) ==
    LET c == call[p]
        l == Append(log[p], "DeleteAccessPoint")
    IN  /\ pc[p] = "DeleteAccessPoint"
        /\ \E err \in AccessPointResults(aps, c.ap) :
              /\ aps' = IF err = "nil"
                        THEN [aps EXCEPT ![AccessPointIndex(aps, c.ap)].live = FALSE]
                        ELSE aps
              /\ faults' = (faults \/ err \notin {"nil", "NotFound"})
              /\ IF err = "nil"
                 THEN Return(p, [c EXCEPT !.err = err], l, Response("OK", Empty, 0))
                 ELSE IF err = "AccessDenied"
                 THEN Return(p, [c EXCEPT !.err = err], l, Failure("Unauthenticated"))
                 ELSE Return(p, [c EXCEPT !.err = err], l, Failure("Internal"))
        /\ UNCHANGED <<gidTable, dirs, mounts, deleteAccessPointRootDir, held,
                       reuse, calls, limit, volumes>>

\* DeleteVolumeDeleteAccessPoint with the identity of the access point deleted
\* given back to the allocator.
DeleteVolumeDeleteAccessPointReleasesGid(p) ==
    LET c == call[p]
        l == Append(log[p], "DeleteAccessPoint")
    IN  /\ pc[p] = "DeleteAccessPoint"
        /\ \E err \in AccessPointResults(aps, c.ap) :
              /\ aps' = IF err = "nil"
                        THEN [aps EXCEPT ![AccessPointIndex(aps, c.ap)].live = FALSE]
                        ELSE aps
              /\ gidTable' = IF err = "nil"
                             THEN releaseGid(gidTable, c.fs,
                                             aps[AccessPointIndex(aps, c.ap)].gid)
                             ELSE gidTable
              /\ faults' = (faults \/ err \notin {"nil", "NotFound"})
              /\ IF err = "nil" \/ err = "NotFound"
                 THEN Return(p, [c EXCEPT !.err = err], l, Response("OK", Empty, 0))
                 ELSE IF err = "AccessDenied"
                 THEN Return(p, [c EXCEPT !.err = err], l, Failure("Unauthenticated"))
                 ELSE Return(p, [c EXCEPT !.err = err], l, Failure("Internal"))
        /\ UNCHANGED <<dirs, mounts, deleteAccessPointRootDir, held, reuse, calls,
                       limit, volumes>>

\* Lines 268-283: the access point is deleted.
DeleteVolumeDeleteAccessPoint(p) ==
    LET c == call[p]
        l == Append(log[p], "DeleteAccessPoint")
    IN  /\ pc[p] = "DeleteAccessPoint"
        /\ \E err \in AccessPointResults(aps, c.ap) :
              /\ aps' = IF err = "nil"
                        THEN [aps EXCEPT ![AccessPointIndex(aps, c.ap)].live = FALSE]
                        ELSE aps
              /\ faults' = (faults \/ err \notin {"nil", "NotFound"})
              /\ IF err = "nil" \/ err = "NotFound"
                 THEN Return(p, [c EXCEPT !.err = err], l, Response("OK", Empty, 0))
                 ELSE IF err = "AccessDenied"
                 THEN Return(p, [c EXCEPT !.err = err], l, Failure("Unauthenticated"))
                 ELSE Return(p, [c EXCEPT !.err = err], l, Failure("Internal"))
        /\ UNCHANGED <<gidTable, dirs, mounts, deleteAccessPointRootDir, held,
                       reuse, calls, limit, volumes>>

(***************************************************************************)
(* The calls made.                                                          *)
(***************************************************************************)
V1 == <<"v", "1">>

Params(mode, fs, lo, hi) ==
    [provisioningMode |-> mode, fileSystemId |-> fs, gidRangeStart |-> lo,
     gidRangeEnd |-> hi]

Request(name, capacity, caps, params) ==
    [name |-> name, capacity |-> capacity, caps |-> caps, params |-> params]

SingleWriter == <<"SINGLE_NODE_WRITER">>

\* Well-formed requests: one file system with the range 1..2, another with
\* the default range.
CreateRequests ==
    {Request(V1, 5, SingleWriter, Params({AccessPointMode}, {F1}, {<<"1">>}, {<<"2">>})),
     Request(V1, 5, SingleWriter, Params({AccessPointMode}, {FColon}, {}, {}))}

VolumeIds ==
    {Empty, <<"x">>} \cup {EncodeVolumeId(F1, AccessPointId(i)) : i \in 1..2}

\* Requests of every kind: each way a name, the access modes and the
\* provisioning mode can be wrong, and each way a file system identifier and
\* the two ends of an identity range can be absent, malformed or well-formed.
AllCreateRequests ==
    {Request(name, 5, caps, Params(mode, {F1}, {}, {})) :
        name \in {Empty, V1},
        caps \in {<<>>, SingleWriter, <<"MULTI_NODE_MULTI_WRITER", "UNKNOWN">>},
        mode \in {{}, {AccessPointMode}, {<<"e", "f", "s">>}}}
    \cup
    {Request(V1, 0, SingleWriter, Params({AccessPointMode}, fs, {}, {})) :
        fs \in {{}, {Empty}, {<<" ">>}, {F1}, {F2}, {FColon}}}
    \cup
    {Request(V1, 5, SingleWriter, Params({AccessPointMode}, {F1}, lo, hi)) :
        lo \in {{}, {<<"x">>}, {<<"0">>}, {<<"-", "1">>}, {<<"1">>}, {<<"2">>}},
        hi \in {{}, {<<"x">>}, {<<"0">>}, {<<"-", "1">>}, {<<"1">>}, {<<"2">>},
                {<<"+", "3">>}}}

\* Identifiers of every kind: empty, with fewer or more segments than three,
\* with an empty segment, and well-formed.
AllVolumeIds ==
    {Empty, <<"x">>, <<":">>, <<":", ":">>, F1 \o <<":", ":">>,
     <<":", ":">> \o AccessPointId(1), F1 \o <<":">> \o AccessPointId(1),
     EncodeVolumeId(FColon, AccessPointId(1)),
     F1 \o <<":", "s", ":">> \o AccessPointId(1)}
    \cup {EncodeVolumeId(fs, AccessPointId(i)) : fs \in {F1, F2}, i \in 1..2}

\* Two workers serve well-formed calls concurrently.
Next ==
    \/ \E p \in Procs, req \in CreateRequests : CreateVolumeValidate(p, req)
    \/ \E p \in Procs : CreateVolumeDescribeFileSystem(p)
    \/ \E p \in Procs : CreateVolumeGetNextGid(p)
    \/ \E p \in Procs : CreateVolumeCreateAccessPoint(p)
    \/ \E p \in Procs : CreateVolumeFailed(p)
    \/ \E p \in Procs : CreateVolumeSucceeded(p)
    \/ \E p \in Procs, volId \in VolumeIds : DeleteVolumeDecode(p, volId)
    \/ \E p \in Procs : DeleteVolumeDescribeAccessPoint(p)
    \/ \E p \in Procs : DeleteVolumeMakeDir(p)
    \/ \E p \in Procs : DeleteVolumeMount(p)
    \/ \E p \in Procs : DeleteVolumeRemoveRootDir(p)
    \/ \E p \in Procs : DeleteVolumeUnmount(p)
    \/ \E p \in Procs : DeleteVolumeRemoveDir(p)
    \/ \E p \in Procs : DeleteVolumeDeleteAccessPoint(p)

Spec == Init /\ [][Next]_vars

\* One worker serves calls of every kind, one after the other.
NextSeq ==
    \/ \E req \in AllCreateRequests : CreateVolumeValidate("w1", req)
    \/ CreateVolumeDescribeFileSystem("w1")
    \/ CreateVolumeGetNextGid("w1")
    \/ CreateVolumeCreateAccessPoint("w1")
    \/ CreateVolumeFailed("w1")
    \/ CreateVolumeSucceeded("w1")
    \/ \E volId \in AllVolumeIds : DeleteVolumeDecode("w1", volId)
    \/ DeleteVolumeDescribeAccessPoint("w1")
    \/ DeleteVolumeMakeDir("w1")
    \/ DeleteVolumeMount("w1")
    \/ DeleteVolumeRemoveRootDir("w1")
    \/ DeleteVolumeUnmount("w1")
    \/ DeleteVolumeRemoveDir("w1")
    \/ DeleteVolumeDeleteAccessPoint("w1")

SpecSeq == Init /\ [][NextSeq]_vars

\* One worker serves well-formed calls and deletions of identifiers of every
\* kind, with the decoder letting identifiers without access point through.
NextDecoder ==
    \/ \E req \in CreateRequests : CreateVolumeValidate("w1", req)
    \/ CreateVolumeDescribeFileSystem("w1")
    \/ CreateVolumeGetNextGid("w1")
    \/ CreateVolumeCreateAccessPoint("w1")
    \/ CreateVolumeFailed("w1")
    \/ CreateVolumeSucceeded("w1")
    \/ \E volId \in AllVolumeIds : \E id \in DecoderAnswers(volId) :
          DeleteVolumeDecoded("w1", volId, id)
    \/ DeleteVolumeDescribeAccessPoint("w1")
    \/ DeleteVolumeMakeDir("w1")
    \/ DeleteVolumeMount("w1")
    \/ DeleteVolumeRemoveRootDir("w1")
    \/ DeleteVolumeUnmount("w1")
    \/ DeleteVolumeRemoveDir("w1")
    \/ DeleteVolumeDeleteAccessPoint("w1")

SpecDecoder == Init /\ [][NextDecoder]_vars

\* One worker serves one call more, each a CreateVolume on one file system
\* with the range 1..2 or the DeleteVolume of a volume of that file system.
ExhaustRequests ==
    {Request(V1, 5, SingleWriter, Params({AccessPointMode}, {F1}, {<<"1">>}, {<<"2">>}))}

ExhaustVolumeIds == {EncodeVolumeId(F1, AccessPointId(i)) : i \in 1..2}

NextExhaust ==
    \/ \E req \in ExhaustRequests : CreateVolumeValidate("w1", req)
    \/ CreateVolumeDescribeFileSystem("w1")
    \/ CreateVolumeGetNextGid("w1")
    \/ CreateVolumeCreateAccessPoint("w1")
    \/ CreateVolumeFailed("w1")
    \/ CreateVolumeSucceeded("w1")
    \/ \E volId \in ExhaustVolumeIds : DeleteVolumeDecode("w1", volId)
    \/ DeleteVolumeDescribeAccessPoint("w1")
    \/ DeleteVolumeMakeDir("w1")
    \/ DeleteVolumeMount("w1")
    \/ DeleteVolumeRemoveRootDir("w1")
    \/ DeleteVolumeUnmount("w1")
    \/ DeleteVolumeRemoveDir("w1")
    \/ DeleteVolumeDeleteAccessPoint("w1")

SpecExhaust == Start(MaxCalls + 1) /\ [][NextExhaust]_vars

(***************************************************************************)
(* Properties.                                                              *)
(***************************************************************************)
\* Worker p takes the step that leaves label.
Leaves(p, label) == pc[p] = label /\ pc'[p] # label

\* C1: no two access points that exist at the same time on one file system
\* are owned by the same identity.
C1_NoSharedIdentity ==
    \A i, j \in 1..Len(aps) :
        (i # j /\ aps[i].live /\ aps[j].live /\ aps[i].fs = aps[j].fs)
            => aps[i].gid # aps[j].gid

\* C2: the identity getNextGid hands to a call is not one that was obtained on
\* that file system and not released since.
C2_FreshIdentity ==
    [][\A p \in Procs :
          (Leaves(p, "getNextGid") /\ pc'[p] = "CreateAccessPoint")
              => <<call[p].fs, call'[p].gid>> \notin held]_vars

\* Two calls hold different identities of one file system at the same time.
C2_Witness ==
    \E p, q \in Procs :
        /\ p # q
        /\ pc[p] = "CreateAccessPoint" /\ pc[q] = "CreateAccessPoint"
        /\ call[p].fs = call[q].fs
        /\ call[p].gid # call[q].gid
        /\ {<<call[p].fs, call[p].gid>>, <<call[q].fs, call[q].gid>>} \subseteq held

\* C3: when CreateAccessPoint fails, the identity is free in the table when
\* CreateVolume returns, and the next allocation on that file system, with no
\* other allocation or release on it since this call's own, obtains it.
C3_ReleasedAndReused ==
    [][\A p \in Procs :
          /\ (Leaves(p, "CreateAccessPointDone") /\ call[p].err # "nil")
                => /\ pc'[p] = "idle"
                   /\ call[p].gid \notin Used(gidTable', call[p].fs)
          /\ (Leaves(p, "getNextGid") /\ pc'[p] = "CreateAccessPoint")
                => \A e \in reuse :
                      (e.fs = call[p].fs /\ e.released) => call'[p].gid = e.gid]_vars

\* A call holds the identity that the failed call before it released.
C3_Witness ==
    \E p \in Procs :
        /\ pc[p] = "CreateAccessPoint"
        /\ call[p].reused
        /\ done.call.op = "CreateVolume"
        /\ done.call.err \in {"AccessDenied", "AlreadyExists", "Other"}
        /\ done.call.fs = call[p].fs
        /\ done.call.gid = call[p].gid

\* The call that returned last was a DeleteVolume.
Deleted == done.call.op = "DeleteVolume"

\* The call that returned last was a CreateVolume.
Created == done.call.op = "CreateVolume"

C5_UndecodableSucceeds ==
    (Deleted /\ parseVolumeId(done.call.req).err) =>
        (done.ret.code = "OK" /\ done.log = <<>>)

\* C5 as amended: DeleteVolume of a non-empty identifier the decoder rejects
\* succeeds and calls no collaborator; the empty identifier is InvalidArgument,
\* with no collaborator called either.
C5_Undecodable ==
    (Deleted /\ parseVolumeId(done.call.req).err) =>
        /\ done.log = <<>>
        /\ done.ret.code =
              IF done.call.req = Empty THEN "InvalidArgument" ELSE "OK"

\* A non-empty identifier of one segment was deleted with success.
C5_Witness ==
    /\ Deleted
    /\ Len(done.call.req) > 0
    /\ Len(Split(done.call.req)) < 3
    /\ done.ret.code = "OK"

\* Every identity of lo..hi is in use on the file system.
RangeFull(table, fs, lo, hi) ==
    /\ HasEntry(table, fs)
    /\ Entry(table, fs).lo = lo /\ Entry(table, fs).hi = hi
    /\ Cardinality({g \in Used(table, fs) : lo <= g /\ g <= hi}) = hi - lo + 1

\* C6: with every identity of the file system's range in use, CreateVolume
\* returns ResourceExhausted at getNextGid, having left the table and the
\* access points as they were and not having called CreateAccessPoint.
C6_Exhausted ==
    [][\A p \in Procs :
          (/\ Leaves(p, "getNextGid")
           /\ RangeFull(gidTable, call[p].fs, call[p].gidMin, call[p].gidMax))
              => /\ pc'[p] = "idle"
                 /\ done'.ret = Failure("ResourceExhausted")
                 /\ done'.log = <<"DescribeFileSystem", "getNextGid">>
                 /\ gidTable' = gidTable
                 /\ aps' = aps]_vars

\* A CreateVolume returned ResourceExhausted with both identities of 1..2 in use.
C6_Witness ==
    /\ Created
    /\ done.ret.code = "ResourceExhausted"
    /\ Used(gidTable, done.call.fs) = {1, 2}

HasDelimiter(s) == \E i \in 1..Len(s) : s[i] = Delimiter

\* What a successful CreateVolume answers, decoded.
DecodesTo(fs, ap) ==
    LET id == parseVolumeId(done.ret.volumeId)
    IN  /\ ~id.err
        /\ id.fileSystemId = fs
        /\ id.subpath = Empty
        /\ id.accessPointId = ap

\* C7 as claimed: the identifier a successful CreateVolume returns decodes to
\* the fileSystemId parameter, the empty subpath and the access point's
\* identifier; the capacity is the requested one and the context is empty.
C7_ResponseDecodes ==
    (Created /\ done.ret.code = "OK") =>
        /\ DecodesTo(Value(done.call.req.params, FsId), done.call.ap)
        /\ done.ret.capacity = done.call.req.capacity
        /\ done.ret.context = EmptyMap

\* C7 as amended: the same, for a fileSystemId that holds no delimiter and an
\* access point identifier that is not empty and holds none.
C7_ResponseDecodesDelimiterFree ==
    (Created /\ done.ret.code = "OK"
        /\ ~HasDelimiter(Value(done.call.req.params, FsId))
        /\ done.call.ap # Empty /\ ~HasDelimiter(done.call.ap)) =>
        /\ DecodesTo(Value(done.call.req.params, FsId), done.call.ap)
        /\ done.ret.capacity = done.call.req.capacity
        /\ done.ret.context = EmptyMap

\* A CreateVolume on a file system without delimiter succeeded.
C7_Witness ==
    /\ Created /\ done.ret.code = "OK"
    /\ done.call.req.params[FsId] = {F1}
    /\ done.call.ap = AccessPointId(Len(aps))

\* The request breaks one of the rules of CreateVolume's validation.
Blank(s) == \A i \in 1..Len(s) : s[i] = " "

IsInteger(s) == ~Atoi(s).err

MalformedRange(params) ==
    ~ \/ ~Has(params, GidMin) /\ ~Has(params, GidMax)
      \/ /\ Has(params, GidMin) /\ Has(params, GidMax)
         /\ IsInteger(Value(params, GidMin)) /\ IsInteger(Value(params, GidMax))
         /\ Atoi(Value(params, GidMin)).val > 0
         /\ Atoi(Value(params, GidMax)).val > Atoi(Value(params, GidMin)).val

ViolatesRule(req) ==
    \/ req.name = Empty
    \/ req.caps = <<>>
    \/ \E i \in 1..Len(req.caps) : req.caps[i] \notin volumeCaps
    \/ ~Has(req.params, ProvisioningMode)
    \/ Value(req.params, ProvisioningMode) # AccessPointMode
    \/ ~Has(req.params, FsId)
    \/ Blank(Value(req.params, FsId))
    \/ MalformedRange(req.params)

\* The call that starts in this step.
Started ==
    IF pc' = pc THEN done'.call
    ELSE call'[CHOOSE p \in Procs : pc'[p] # pc[p]]

\* C8: a CreateVolume whose request breaks a validation rule returns
\* InvalidArgument in the step it starts in, with no collaborator called and
\* the table, the access points and the mounts as they were.
C8_InvalidRequest ==
    [][(calls' = calls + 1 /\ Started.op = "CreateVolume"
            /\ ViolatesRule(Started.req))
          => /\ pc' = pc
             /\ done'.ret = Failure("InvalidArgument")
             /\ done'.log = <<>>
             /\ gidTable' = gidTable /\ aps' = aps
             /\ dirs' = dirs /\ mounts' = mounts]_vars

\* A request whose range ends where it starts was refused.
C8_Witness ==
    /\ Created
    /\ done.ret.code = "InvalidArgument"
    /\ done.log = <<>>
    /\ done.call.req.params[GidMin] = {<<"2">>}
    /\ done.call.req.params[GidMax] = {<<"2">>}

\* The identifier of the call that returned last is well-formed.
WellFormed ==
    /\ ~parseVolumeId(done.call.req).err
    /\ parseVolumeId(done.call.req).accessPointId # Empty

\* C9: with root-directory deletion disabled, DeleteVolume of a well-formed
\* identifier calls DeleteAccessPoint once and nothing else, and succeeds when
\* that call does.
C9_OnlyDeleteAccessPoint ==
    (Deleted /\ ~deleteAccessPointRootDir /\ WellFormed) =>
        /\ done.log = <<"DeleteAccessPoint">>
        /\ done.call.err = "nil" => done.ret.code = "OK"

\* An access point was deleted with root-directory deletion disabled.
C9_Witness ==
    /\ Deleted /\ ~deleteAccessPointRootDir /\ WellFormed
    /\ done.call.err = "nil"
    /\ done.ret.code = "OK"
    /\ ~IsLive(aps, done.call.ap)

\* C10: DeleteVolume succeeds when the Cloud collaborator answers NotFound;
\* answered at DescribeAccessPoint, that call is the only one made.
C10_NotFoundSucceeds ==
    (Deleted /\ done.call.err = "NotFound") =>
        /\ done.ret.code = "OK"
        /\ done.log \in {<<"DescribeAccessPoint">>, <<"DeleteAccessPoint">>,
                         <<"DescribeAccessPoint", "MakeDir", "Mount",
                           "RemoveAll(root)", "Unmount", "RemoveAll(target)",
                           "DeleteAccessPoint">>}
        /\ deleteAccessPointRootDir => done.log[1] = "DescribeAccessPoint"

\* NotFound was answered at DescribeAccessPoint.
C10_Witness ==
    /\ Deleted /\ done.call.err = "NotFound"
    /\ done.log = <<"DescribeAccessPoint">>
    /\ done.ret.code = "OK"

\* The DeleteVolume that returned last mounted the file system at the
\* ephemeral directory: Mount was called and the os.Remove of its failure was
\* not.
Mounted ==
    Deleted /\ Called(done.log, "Mount") /\ ~Called(done.log, "Remove")

\* C11: when a DeleteVolume that mounted the file system at the ephemeral
\* directory returns, with success or with a failure, it has unmounted the
\* file system (Unmount was called and did not fail) and removed the directory
\* (the removal was called and did not fail, so that DeleteAccessPoint
\* followed).
C11_MountReleased ==
    Mounted =>
        /\ Called(done.log, "Unmount") /\ done.call.err # "Unmount"
        /\ Called(done.log, "RemoveAll(target)")
        /\ Called(done.log, "DeleteAccessPoint")

\* A call returns in this step; done' is that call.
Returns ==
    \/ \E p \in Procs : pc[p] # "idle" /\ pc'[p] = "idle"
    \/ calls' = calls + 1 /\ pc' = pc

\* C12: while no collaborator and no removal has failed where it could have
\* succeeded (the Cloud collaborator answered NotFound only for an access point
\* that is gone), every DeleteVolume of a non-empty identifier returns success
\* with the access point deleted, whichever calls it ran along with; two
\* DeleteVolume calls with the same identifier are among them.
C12_ConcurrentDeletesSucceed ==
    [][(Returns /\ done'.call.op = "DeleteVolume" /\ ~faults'
            /\ done'.call.req # Empty)
          => /\ done'.ret.code = "OK"
             /\ ~IsLive(aps', done'.call.ap)]_vars

\* The calls l are made in the order of CreateVolume: each call but the first
\* follows the one before it in DescribeFileSystem, getNextGid,
\* CreateAccessPoint, releaseGid.
CreateOrder == <<"DescribeFileSystem", "getNextGid", "CreateAccessPoint", "releaseGid">>

InCreateOrder(l) == \A i \in 1..Len(l) : i <= Len(CreateOrder) /\ l[i] = CreateOrder[i]

\* C13: a CreateVolume whose DescribeFileSystem fails returns in that step,
\* Unauthenticated for access denied, InvalidArgument for not found and
\* Internal for any other error, with DescribeFileSystem the only call made
\* and the table and the access points as they were; and in every
\* CreateVolume getNextGid is called only after DescribeFileSystem and
\* CreateAccessPoint only after getNextGid.
C13_DescribeFileSystemFirst ==
    [][\A p \in Procs :
          /\ (Leaves(p, "DescribeFileSystem") /\ pc'[p] # "getNextGid")
                => /\ pc'[p] = "idle"
                   /\ done'.call.err \in {"AccessDenied", "NotFound", "Other"}
                   /\ done'.ret =
                         Failure(IF done'.call.err = "AccessDenied" THEN "Unauthenticated"
                                 ELSE IF done'.call.err = "NotFound" THEN "InvalidArgument"
                                 ELSE "Internal")
                   /\ done'.log = <<"DescribeFileSystem">>
                   /\ gidTable' = gidTable /\ aps' = aps /\ held' = held
          /\ call'[p].op = "CreateVolume" => InCreateOrder(log'[p])
          /\ done'.call.op = "CreateVolume" => InCreateOrder(done'.log)]_vars

\* A CreateVolume on a file system that does not exist returned
\* InvalidArgument after DescribeFileSystem.
C13_Witness ==
    /\ Created
    /\ done.call.err = "NotFound"
    /\ done.ret.code = "InvalidArgument"
    /\ done.log = <<"DescribeFileSystem">>
    /\ done.call.fs = F2

\* The request breaks no rule of CreateVolume's validation but, maybe, those
\* of the identity range.
ValidButRange(req) ==
    /\ req.name # Empty
    /\ req.caps # <<>>
    /\ \A i \in 1..Len(req.caps) : req.caps[i] \in volumeCaps
    /\ req.params[ProvisioningMode] = {AccessPointMode}
    /\ Has(req.params, FsId) /\ ~Blank(Value(req.params, FsId))

\* The range a well-formed request asks for: the default one with both
\* parameters absent, the pair supplied with both present.
RequestedRange(params) ==
    IF ~Has(params, GidMin) /\ ~Has(params, GidMax)
    THEN <<50000, 7000000>>
    ELSE <<Atoi(Value(params, GidMin)).val, Atoi(Value(params, GidMax)).val>>

\* C14: a CreateVolume whose request is valid but for gidRangeStart and
\* gidRangeEnd passes validation exactly when both are absent or both are
\* integers with gidRangeStart > 0 and gidRangeEnd > gidRangeStart, and
\* returns InvalidArgument otherwise; a file system's first allocation is made
\* from the default range 50000..7000000 in the first case and from the pair
\* supplied in the second.
C14_RangeValidation ==
    [][/\ (calls' = calls + 1 /\ Started.op = "CreateVolume"
              /\ ValidButRange(Started.req))
            => IF MalformedRange(Started.req.params)
               THEN pc' = pc /\ done'.ret = Failure("InvalidArgument")
               ELSE /\ \E p \in Procs : Leaves(p, "idle") /\ pc'[p] = "DescribeFileSystem"
                    /\ <<Started.gidMin, Started.gidMax>>
                           = RequestedRange(Started.req.params)
       /\ \A p \in Procs :
            (Leaves(p, "getNextGid") /\ ~HasEntry(gidTable, call[p].fs))
                => /\ HasEntry(gidTable', call[p].fs)
                   /\ <<Entry(gidTable', call[p].fs).lo, Entry(gidTable', call[p].fs).hi>>
                          = RequestedRange(call[p].req.params)]_vars

\* A CreateVolume without gidRangeStart and gidRangeEnd succeeded with an
\* identity of the default range.
C14_Witness ==
    /\ Created /\ done.ret.code = "OK"
    /\ done.call.req.params[GidMin] = {} /\ done.call.req.params[GidMax] = {}
    /\ done.call.gid = 50000
    /\ Entry(gidTable, done.call.fs).lo = 50000
    /\ Entry(gidTable, done.call.fs).hi = 7000000

\* The calls l of one invocation hold no call twice.
NoCallTwice(l) ==
    \A x \in {"DescribeFileSystem", "getNextGid", "CreateAccessPoint", "releaseGid",
              "DescribeAccessPoint", "DeleteAccessPoint"} : Count(l, x) <= 1

\* C15: no invocation, returned or under way, has called DescribeFileSystem,
\* getNextGid, CreateAccessPoint, DescribeAccessPoint or DeleteAccessPoint more
\* than once; releaseGid is called once by a CreateVolume whose
\* CreateAccessPoint failed, before it returns, and never otherwise.
C15_NoRetries ==
    /\ NoCallTwice(done.log)
    /\ \A p \in Procs : NoCallTwice(log[p]) /\ ~Called(log[p], "releaseGid")
    /\ Count(done.log, "releaseGid") =
          IF Created /\ Called(done.log, "CreateAccessPoint") /\ done.call.err # "nil"
          THEN 1 ELSE 0

\* A CreateVolume whose CreateAccessPoint failed returned after one call of
\* each kind and one release.
C15_Witness ==
    /\ Created
    /\ done.call.err = "AlreadyExists"
    /\ done.log = <<"DescribeFileSystem", "getNextGid", "CreateAccessPoint", "releaseGid">>

\* C16: every CreateVolume, a retry of a failed one with the same name and
\* parameters included, takes an identity from the allocator that was free
\* before; the access point a successful CreateAccessPoint answers is one
\* that did not exist before the call, whatever access points earlier attempts
\* left; and a CreateVolume that succeeds has called DescribeFileSystem,
\* getNextGid and CreateAccessPoint and nothing else, and returns the
\* identifier of the access point it created.
C16_RetryCreatesAnew ==
    [][\A p \in Procs :
          /\ (Leaves(p, "getNextGid") /\ pc'[p] = "CreateAccessPoint")
                => /\ call'[p].gid \notin Used(gidTable, call[p].fs)
                   /\ call'[p].gid \in Used(gidTable', call[p].fs)
          /\ (Leaves(p, "CreateAccessPoint") /\ call'[p].err = "nil")
                => /\ Len(aps') = Len(aps) + 1
                   /\ AccessPointIndex(aps, call'[p].ap) = 0
                   /\ AccessPointIndex(aps', call'[p].ap) = Len(aps')
                   /\ aps'[Len(aps')] = [fs |-> call[p].fs, gid |-> call[p].gid,
                                         live |-> TRUE]
          /\ (Leaves(p, "CreateAccessPointDone") /\ call[p].err = "nil")
                => /\ done'.log = <<"DescribeFileSystem", "getNextGid", "CreateAccessPoint">>
                   /\ done'.ret.volumeId = call[p].fs \o <<":", ":">> \o call[p].ap]_vars

\* A CreateVolume succeeded with a second access point on a file system where
\* a failed attempt had left one, owned by the identity that attempt released.
C16_Witness ==
    /\ Created /\ done.ret.code = "OK"
    /\ Len(aps) = 2
    /\ done.call.ap = AccessPointId(2)
    /\ aps[1].live
    /\ aps[1].fs = aps[2].fs
    /\ aps[1].gid = aps[2].gid

\* C17: a DeleteVolume whose identifier the decoder accepts with an empty
\* access point identifier returns NotFound in the step it starts in, with no
\* collaborator called and the access points, the directories and the mounts
\* as they were.
C17_EmptyAccessPointNotFound ==
    [][(calls' = calls + 1 /\ Started.op = "DeleteVolume"
            /\ Started.fs # Empty /\ Started.ap = Empty)
          => /\ pc' = pc
             /\ done'.ret = Failure("NotFound")
             /\ done'.log = <<>>
             /\ aps' = aps /\ dirs' = dirs /\ mounts' = mounts
             /\ gidTable' = gidTable]_vars

\* The identifier of a file system alone, decoded with an empty access point
\* identifier, was answered with NotFound.
C17_Witness ==
    /\ Deleted
    /\ done.call.req = F1 \o <<":", ":">>
    /\ done.call.fs = F1 /\ done.call.ap = Empty
    /\ done.ret.code = "NotFound"
    /\ done.log = <<>>

\* This step is a step of a DeleteVolume.
DeleteStep ==
    \/ \E p \in Procs : call[p].op = "DeleteVolume" /\ pc'[p] # pc[p]
    \/ calls' = calls + 1 /\ Started.op = "DeleteVolume"

\* The volumes that CreateVolume returned on the file system fs, deleted or not.
VolumesOn(fs) == {a \in volumes : aps[AccessPointIndex(aps, a)].fs = fs}

\* C18: no step of DeleteVolume changes the allocation table; the identity of
\* every volume CreateVolume returned is in use in the table, the volume
\* deleted or not; and a CreateVolume that comes to getNextGid with the range
\* of a file system on which as many volumes were returned as the range has
\* identities returns ResourceExhausted, however many of them were deleted.
C18_DeleteKeepsIdentity ==
    [][/\ DeleteStep => gidTable' = gidTable
       /\ \A a \in volumes :
            aps[AccessPointIndex(aps, a)].gid
                \in Used(gidTable, aps[AccessPointIndex(aps, a)].fs)
       /\ \A p \in Procs :
            (/\ Leaves(p, "getNextGid")
             /\ HasEntry(gidTable, call[p].fs)
             /\ Entry(gidTable, call[p].fs).lo = call[p].gidMin
             /\ Entry(gidTable, call[p].fs).hi = call[p].gidMax
             /\ Cardinality(VolumesOn(call[p].fs))
                    >= call[p].gidMax - call[p].gidMin + 1)
                => /\ pc'[p] = "idle"
                   /\ done'.ret = Failure("ResourceExhausted")]_vars

\* A CreateVolume returned ResourceExhausted on a file system with the range
\* 1..2 after two volumes were returned on it and one of them was deleted.
C18_Witness ==
    /\ Created
    /\ done.ret.code = "ResourceExhausted"
    /\ done.call.gidMin = 1 /\ done.call.gidMax = 2
    /\ Cardinality(VolumesOn(done.call.fs)) = 2
    /\ \E a \in VolumesOn(done.call.fs) : ~IsLive(aps, a)

\* C19: whenever a DeleteVolume runs the removal of the ephemeral directory of
\* its access point, no file system is mounted at that directory.
C19_RemovalOnlyUnmounted ==
    [][\A p \in Procs : Leaves(p, "RemoveDir") => mounts[Target(p)] = 0]_vars

=============================================================================
